---- MODULE Spec2Model ----
(***************************************************************************)
(* Cell2fateModel (src/cell2fate/_cell2fate_multiLineage_model_2.py): the  *)
(* posterior export, normalisation, velocity and reconstruction-QC         *)
(* operations of the user-facing model class, as a state machine over the  *)
(* model object (self.adata, self.samples, self.expected_nb_param) and the *)
(* data object handed to export_posterior.                                 *)
(*                                                                         *)
(* Numbers are exact rationals [n, d] in lowest terms, so that             *)
(* / * - ** and min() are computed as numpy computes them on reals.        *)
(* Arrays are functions over 0-based index ranges, as in numpy.            *)
(***************************************************************************)
EXTENDS Integers, Sequences, FiniteSets, TLC

VARIABLES
    self_adata,         \* self.adata / self.adata_manager: the registered data
    sampler,            \* the summary sets self.sample_posterior() can return
    samples,            \* self.samples (NoAttr until export_posterior assigns it)
    expected_nb_param,  \* self.expected_nb_param (NoAttr until plot_QC assigns it)
    adata,              \* the data object passed to export_posterior
    last,               \* the last call: its arguments, its locals and how it ended
    trace               \* the calls made so far: <<operation, how it ended>>, oldest first

vars == <<self_adata, sampler, samples, expected_nb_param, adata, last, trace>>

----------------------------------------------------------------------------
(* Bounds of the model *)

MaxCells == 2
MaxGenes == 2
MaxCalls == 2
NumDraws == 2

----------------------------------------------------------------------------
(* Exact arithmetic *)

Abs(i) == IF i < 0 THEN -i ELSE i

RECURSIVE GCD(_, _)
GCD(a, b) == IF b = 0 THEN a ELSE GCD(b, a % b)

\* the rational n/d (d # 0) in lowest terms with a positive denominator
Rat(n, d) ==
    IF d = 1 THEN [n |-> n, d |-> 1]
    ELSE LET g == GCD(Abs(n), Abs(d))
             s == IF d < 0 THEN -1 ELSE 1
         IN  [n |-> (s * n) \div g, d |-> (s * d) \div g]

Num(i) == [n |-> i, d |-> 1]
Zero == Num(0)
Half == Rat(1, 2)

RAdd(x, y) == Rat(x.n * y.d + y.n * x.d, x.d * y.d)
RSub(x, y) == Rat(x.n * y.d - y.n * x.d, x.d * y.d)
RMul(x, y) == Rat(x.n * y.n, x.d * y.d)
RDiv(x, y) == Rat(x.n * y.d, x.d * y.n)
RSq(x) == RMul(x, x)
RLt(x, y) == x.n * y.d < y.n * x.d
RLe(x, y) == x.n * y.d <= y.n * x.d

\* numpy's ndarray.min() over all entries of a non-empty array
ArrayMin(A) ==
    LET E == {A.at[t] : t \in DOMAIN A.at}
    IN  CHOOSE m \in E : \A e \in E : RLe(m, e)

\* np.sqrt: the root of a non-negative radicand, nan below zero
NaN == [nan |-> TRUE]
Sqrt(r) == IF RLt(r, Zero) THEN NaN ELSE [sqrt_of |-> r]

----------------------------------------------------------------------------
(* numpy arrays: [shape, at], at a function over the 0-based index tuples *)

\* an optional value: None, or a value v
None == [is_none |-> TRUE]
Some(v) == [is_none |-> FALSE, v |-> v]

RECURSIVE Size(_)
Size(shape) == IF shape = <<>> THEN 1 ELSE shape[1] * Size(Tail(shape))

\* the index tuple of flat (C-order) position k
RECURSIVE Unravel(_, _)
Unravel(k, shape) ==
    IF shape = <<>> THEN <<>>
    ELSE LET r == Size(Tail(shape))
         IN  <<k \div r>> \o Unravel(k % r, Tail(shape))

Indices(shape) == {Unravel(k, shape) : k \in 0 .. Size(shape) - 1}

\* (@@ <<>> leaves the function unchanged and has TLC tabulate it once)
NdArray(shape, F(_)) == [shape |-> shape, at |-> [t \in Indices(shape) |-> F(t)] @@ <<>>]

Front(s) == SubSeq(s, 1, Len(s) - 1)

\* A.flatten()
flatten(A) == NdArray(<<Size(A.shape)>>, LAMBDA t : A.at[Unravel(t[1], A.shape)])

\* A[..., k] (and A[:, :, k] on a 3-d array): index k of the last axis
LastAxis(A, k) == NdArray(Front(A.shape), LAMBDA t : A.at[t \o <<k>>])

\* A[k, :, :]: index k of the first axis
FirstAxis(A, k) == NdArray(Tail(A.shape), LAMBDA t : A.at[<<k>> \o t])

\* A[None, :]: a new leading axis of length 1
NewAxis(A) == NdArray(<<1>> \o A.shape, LAMBDA t : A.at[Tail(t)])

\* A[ind, :] with an integer index array ind: the rows ind[0], ind[1], ...
TakeRows(A, ind) ==
    NdArray(<<Len(ind)>> \o Tail(A.shape), LAMBDA t : A.at[<<ind[t[1] + 1]>> \o Tail(t)])

Max(a, b) == IF a < b THEN b ELSE a

\* numpy broadcasting of two shapes (trailing axes aligned, length-1 axes stretch)
BroadcastShape(sa, sb) ==
    LET n == Max(Len(sa), Len(sb))
        dim(s, i) == LET j == i - (n - Len(s)) IN IF j < 1 THEN 1 ELSE s[j]
    IN  [i \in 1 .. n |-> Max(dim(sa, i), dim(sb, i))]

\* the index into an array of shape s that result index t reads
BroadcastIndex(t, s) ==
    [j \in 1 .. Len(s) |-> IF s[j] = 1 THEN 0 ELSE t[j + (Len(t) - Len(s))]]

Elementwise(Op(_, _), A, B) ==
    NdArray(BroadcastShape(A.shape, B.shape),
            LAMBDA t : Op(A.at[BroadcastIndex(t, A.shape)], B.at[BroadcastIndex(t, B.shape)]))

Map(Op(_), A) == NdArray(A.shape, LAMBDA t : Op(A.at[t]))

\* np.dot of a 2-d array with a 2-d array
dot(A, B) ==
    NdArray(<<A.shape[1], B.shape[2]>>,
            LAMBDA t :
                LET acc[k \in 0 .. A.shape[2]] ==
                        IF k = 0 THEN Zero
                        ELSE RAdd(acc[k - 1], RMul(A.at[<<t[1], k - 1>>], B.at[<<k - 1, t[2]>>]))
                IN  acc[A.shape[2]])

----------------------------------------------------------------------------
(* The registered data: self.adata and the registry of self.adata_manager *)

\* scipy.sparse matrix: only the non-zero entries are stored
issparse(X) == "nz" \in DOMAIN X

tosparse(A) ==
    [shape |-> A.shape,
     nz |-> [t \in {u \in DOMAIN A.at : A.at[u] # Zero} |-> A.at[t]]]

\* X.toarray(): the dense array, zero where nothing is stored
toarray(X) ==
    NdArray(X.shape, LAMBDA t : IF t \in DOMAIN X.nz THEN X.nz[t] ELSE Zero)

\* X[ind, :] on a sparse matrix with an integer index array
SparseTakeRows(X, ind) ==
    LET keep == {t \in Indices(<<Len(ind), X.shape[2]>>) :
                    <<ind[t[1] + 1], t[2]>> \in DOMAIN X.nz}
    IN  [shape |-> <<Len(ind), X.shape[2]>>,
         nz |-> [t \in keep |-> X.nz[<<ind[t[1] + 1], t[2]>>]]]

BATCH_KEY == "batch"

\* adata_manager.get_from_registry(key) of the fields setup_anndata registers
get_from_registry(key) ==
    IF key = BATCH_KEY THEN self_adata.batch ELSE self_adata.layers[key]

\* a registered data set of C cells, G genes and B batches; the count layers
\* stored sparse or dense
DataSet(C, G, B, sparse, U(_), S(_)) ==
    LET u == NdArray(<<C, G>>, U)
        sp == NdArray(<<C, G>>, S)
    IN  [n_obs |-> C, n_vars |-> G,
         obs_names |-> [i \in 1 .. C |-> i - 1],
         var_names |-> [j \in 1 .. G |-> j - 1],
         layers |-> [unspliced |-> IF sparse THEN tosparse(u) ELSE u,
                     spliced |-> IF sparse THEN tosparse(sp) ELSE sp],
         batch |-> NdArray(<<C, 1>>, LAMBDA t : t[1] % B)]

\* pd.get_dummies(codes): one indicator column per distinct value, in
\* ascending order of the values
get_dummies(codes) ==
    LET present == {codes.at[t] : t \in DOMAIN codes.at}
        column(v) == Cardinality({w \in present : w < v})
    IN  NdArray(<<codes.shape[1], Cardinality(present)>>,
                LAMBDA t : IF column(codes.at[<<t[1]>>]) = t[2] THEN Num(1) ELSE Zero)

----------------------------------------------------------------------------
(* Posterior sample sets: what self.sample_posterior() returns *)

\* an attribute that was never assigned (getattr's default applies)
NoAttr == <<>>
hasattr(x) == DOMAIN x # {}

ParamNames ==
    <<"T_c", "detection_y_cu", "detection_y_cs", "alpha_g", "beta_g", "gamma_g",
      "T_gON", "T_gOFF", "mu_RNAvelocity", "s_g_gene_add">>

Params == {ParamNames[i] : i \in DOMAIN ParamNames}

\* the shape of each parameter's summary: per cell, per gene (with the unit
\* axes that [0, :, :] and [..., 0] strip), cells x genes x 2, batches x genes x 2
ParamShape(p, C, G, B) ==
    CASE p \in {"T_c", "detection_y_cu", "detection_y_cs"} -> <<1, C, 1>>
      [] p \in {"alpha_g", "beta_g", "gamma_g", "T_gON", "T_gOFF"} -> <<1, G, 1>>
      [] p = "mu_RNAvelocity" -> <<C, G, 2>>
      [] p = "s_g_gene_add" -> <<B, G, 2>>

ParamArrays(C, G, B, V(_, _)) ==
    [p \in Params |-> NdArray(ParamShape(p, C, G, B), LAMBDA t : V(p, t))]

SummaryKeys == {"post_sample_means", "post_sample_stds", "post_sample_q05", "post_sample_q95"}

\* sample_kwargs values: None, a non-dict, or a dict (items: key -> value)
NoneArg == [type |-> "NoneType"]
ListArg == [type |-> "list"]
DictArg(items) == [type |-> "dict", items |-> items]
dict == <<>>

\* PyroSampleMixin.sample_posterior(**kw): the summaries, and the raw draws
\* only with return_samples (its default is False); draw is what the
\* stochastic sampler yields in this call
sample_posterior(kw, draw) ==
    LET return_samples == IF "return_samples" \in DOMAIN kw THEN kw["return_samples"] ELSE FALSE
        keys == SummaryKeys \cup (IF return_samples THEN {"posterior_samples"} ELSE {})
    IN  [k \in keys |-> draw[k]]

----------------------------------------------------------------------------
(* Cell2fateModel._export2adata *)

\* the two name lists under each other's key
_export2adata_swapped(smp) ==
    [model_name |-> "Cell2FateBaseModule",
     date |-> "today",
     var_names |-> self_adata.obs_names,
     obs_names |-> self_adata.var_names,
     post_sample_means |-> smp["post_sample_means"],
     post_sample_stds |-> smp["post_sample_stds"],
     post_sample_q05 |-> smp["post_sample_q05"],
     post_sample_q95 |-> smp["post_sample_q95"]]

_export2adata(smp) ==
    [model_name |-> "Cell2FateBaseModule",
     date |-> "today",
     var_names |-> self_adata.var_names,
     obs_names |-> self_adata.obs_names,
     post_sample_means |-> smp["post_sample_means"],
     post_sample_stds |-> smp["post_sample_stds"],
     post_sample_q05 |-> smp["post_sample_q05"],
     post_sample_q95 |-> smp["post_sample_q95"]]

----------------------------------------------------------------------------
(* Cell2fateModel.normalize *)

Dense(X) == IF issparse(X) THEN toarray(X) ELSE X

\* raw / detection[0, :, :] - np.dot(obs2sample, background)
corrected(raw, detection, obs2sample, background) ==
    Elementwise(RSub,
                Elementwise(RDiv, Dense(raw), FirstAxis(detection, 0)),
                dot(obs2sample, background))

\* A - m for a scalar m
minus_scalar(A, m) == Map(LAMBDA x : RSub(x, m), A)

\* corrected - corrected.min(axis=1): each row shifted by its own minimum
shifted_rowwise(A) ==
    NdArray(A.shape,
            LAMBDA t : RSub(A.at[t],
                            ArrayMin(NdArray(<<1, A.shape[2]>>, LAMBDA u : A.at[<<t[1], u[2]>>]))))

\* corrected - corrected.min()
shifted(A) == minus_scalar(A, ArrayMin(A))

normalize(post_means, a) ==
    LET obs2sample == get_dummies(flatten(get_from_registry(BATCH_KEY)))
        unspliced_corrected ==
            corrected(get_from_registry("unspliced"), post_means["detection_y_cu"],
                      obs2sample, LastAxis(post_means["s_g_gene_add"], 0))
        spliced_corrected ==
            corrected(get_from_registry("spliced"), post_means["detection_y_cs"],
                      obs2sample, LastAxis(post_means["s_g_gene_add"], 1))
    IN  [a EXCEPT !.layers = ("unspliced_norm" :> shifted(unspliced_corrected))
                             @@ ("spliced_norm" :> shifted(spliced_corrected)) @@ @]

----------------------------------------------------------------------------
(* Cell2fateModel.export_posterior *)

\* the two components of mu_RNAvelocity taken the other way round
velocity_swapped(m) ==
    Elementwise(RSub,
        Elementwise(RMul, LastAxis(m["beta_g"], 0), LastAxis(m["mu_RNAvelocity"], 1)),
        Elementwise(RMul, LastAxis(m["gamma_g"], 0), LastAxis(m["mu_RNAvelocity"], 0)))

\* beta_g[..., 0] * mu_RNAvelocity[:, :, 0] - gamma_g[..., 0] * mu_RNAvelocity[:, :, 1]
velocity(m) ==
    Elementwise(RSub,
        Elementwise(RMul, LastAxis(m["beta_g"], 0), LastAxis(m["mu_RNAvelocity"], 0)),
        Elementwise(RMul, LastAxis(m["gamma_g"], 0), LastAxis(m["mu_RNAvelocity"], 1)))

Add(A, B) == Elementwise(RAdd, A, B)
Sub(A, B) == Elementwise(RSub, A, B)
Mul(A, B) == Elementwise(RMul, A, B)
Sq(A) == Map(RSq, A)

\* the two product variances subtracted instead of added
radicand_difference(mb, sb, m0, s0, mg, sg, m1, s1) ==
    Sub(Sub(Mul(Add(Sq(mb), Sq(sb)), Add(Sq(m0), Sq(s0))), Mul(Sq(mb), Sq(m0))),
        Sub(Mul(Add(Sq(mg), Sq(sg)), Add(Sq(m1), Sq(s1))), Mul(Sq(mg), Sq(m1))))

\* the argument of np.sqrt in velocity_sd, in the order Python evaluates it:
\* (mb^2 + sb^2) * (m0^2 + s0^2) - mb^2 * m0^2
\*   + (mg^2 + sg^2) * (m1^2 + s1^2) - mg^2 * m1^2
radicand(mb, sb, m0, s0, mg, sg, m1, s1) ==
    Sub(Add(Sub(Mul(Add(Sq(mb), Sq(sb)), Add(Sq(m0), Sq(s0))),
                Mul(Sq(mb), Sq(m0))),
            Mul(Add(Sq(mg), Sq(sg)), Add(Sq(m1), Sq(s1)))),
        Mul(Sq(mg), Sq(m1)))

velocity_variance(m, sd) ==
    radicand(LastAxis(m["beta_g"], 0), LastAxis(sd["beta_g"], 0),
             LastAxis(m["mu_RNAvelocity"], 0), LastAxis(sd["mu_RNAvelocity"], 0),
             LastAxis(m["gamma_g"], 0), LastAxis(sd["gamma_g"], 0),
             LastAxis(m["mu_RNAvelocity"], 1), LastAxis(sd["mu_RNAvelocity"], 1))

velocity_sd(m, sd) == Map(Sqrt, velocity_variance(m, sd))

\* the per-draw velocity from the raw posterior samples
velocity_posterior(ps) ==
    Sub(Mul(LastAxis(ps["beta_g"], 0), LastAxis(ps["mu_RNAvelocity"], 0)),
        Mul(LastAxis(ps["gamma_g"], 0), LastAxis(ps["mu_RNAvelocity"], 1)))

\* the columns taken from the sample set cached before the call, when there is one
obs_columns_cached(smp) ==
    LET old == IF hasattr(samples) THEN samples ELSE smp
        m == old["post_sample_means"]
        sd == old["post_sample_stds"]
    IN  [latent_time_mean |-> flatten(m["T_c"]),
         latent_time_sd |-> flatten(sd["T_c"]),
         normalization_factor_unspliced_mean |-> flatten(m["detection_y_cu"]),
         normalization_factor_unspliced_sd |-> flatten(sd["detection_y_cu"]),
         normalization_factor_spliced_mean |-> flatten(m["detection_y_cs"]),
         normalization_factor_spliced_sd |-> flatten(sd["detection_y_cs"])]

\* adata.obs[...] = ... (lines 244-249)
obs_columns(smp) ==
    LET m == smp["post_sample_means"]
        sd == smp["post_sample_stds"]
    IN  [latent_time_mean |-> flatten(m["T_c"]),
         latent_time_sd |-> flatten(sd["T_c"]),
         normalization_factor_unspliced_mean |-> flatten(m["detection_y_cu"]),
         normalization_factor_unspliced_sd |-> flatten(sd["detection_y_cu"]),
         normalization_factor_spliced_mean |-> flatten(m["detection_y_cs"]),
         normalization_factor_spliced_sd |-> flatten(sd["detection_y_cs"])]

\* adata.var[...] = ... (lines 251-260)
var_columns(smp) ==
    LET m == smp["post_sample_means"]
        sd == smp["post_sample_stds"]
    IN  [transcription_rate_mean |-> flatten(m["alpha_g"]),
         transcription_rate_sd |-> flatten(sd["alpha_g"]),
         splicing_rate_mean |-> flatten(m["beta_g"]),
         splicing_rate_sd |-> flatten(sd["beta_g"]),
         degredation_rate_mean |-> flatten(m["gamma_g"]),
         degredation_rate_sd |-> flatten(sd["gamma_g"]),
         switchON_time_mean |-> flatten(m["T_gON"]),
         switchON_time_sd |-> flatten(sd["T_gON"]),
         switchOFF_time_mean |-> flatten(m["T_gOFF"]),
         switchOFF_time_sd |-> flatten(sd["T_gOFF"])]

\* line 240: sample_kwargs['return_samples'] of the dict kw
has_return_samples(kw) == "return_samples" \in DOMAIN kw

\* the gate without the full_velocity_posterior flag
wants_velocity_posterior_unflagged(kw, full_velocity_posterior) == kw["return_samples"]

\* line 277: the gate of the per-draw velocity
wants_velocity_posterior(kw, full_velocity_posterior) ==
    kw["return_samples"] /\ full_velocity_posterior = TRUE

\* lines 238-288 of export_posterior with self.samples = smp and the dict
\* kw, run to the return or to the exception that ends the call: the new
\* self.samples, the data object as the call leaves it, and how the call ended
export_posterior_body(smp, kw, export_slot, full_velocity_posterior, norm) ==
    LET a1 == [adata EXCEPT !.uns = (export_slot :> _export2adata(smp)) @@ @]
        a2 == IF kw["return_samples"]
              THEN [a1 EXCEPT !.uns[export_slot] =
                        ("post_samples" :> smp["posterior_samples"]) @@ @]
              ELSE a1
        a3 == [a2 EXCEPT !.obs = obs_columns(smp) @@ @]
        a4 == [a3 EXCEPT !.var = var_columns(smp) @@ @]
        a5 == [a4 EXCEPT !.layers =
                  ("velocity" :> velocity(smp["post_sample_means"]))
                  @@ ("velocity_sd" :> velocity_sd(smp["post_sample_means"],
                                                   smp["post_sample_stds"])) @@ @]
        a6 == IF wants_velocity_posterior(kw, full_velocity_posterior)
              THEN [a5 EXCEPT !.uns =
                        ("velocity_posterior" :> velocity_posterior(smp["posterior_samples"])) @@ @]
              ELSE a5
        a7 == IF norm THEN normalize(smp["post_sample_means"], a6) ELSE a6
        end(a, how) == [samples |-> smp, adata |-> a, outcome |-> how]
    IN  IF ~has_return_samples(kw) THEN end(a1, "KeyError")
        ELSE IF adata.n_obs # self_adata.n_obs THEN end(a2, "ValueError")
        ELSE IF adata.n_vars # self_adata.n_vars THEN end(a3, "ValueError")
        ELSE end(a7, "returned")

\* line 230: sample_kwargs if isinstance(sample_kwargs, dict) else dict()
as_dict(sample_kwargs) == IF sample_kwargs.type = "dict" THEN sample_kwargs.items ELSE dict

\* The call export_posterior(adata, sample_kwargs, export_slot,
\* full_velocity_posterior, normalize), draw being what the sampler yields
export_posterior_run(draw, sample_kwargs, export_slot, full_velocity_posterior, norm) ==
    export_posterior_body(sample_posterior(as_dict(sample_kwargs), draw), as_dict(sample_kwargs),
                          export_slot, full_velocity_posterior, norm)

----------------------------------------------------------------------------
(* Cell2fateModel.plot_QC *)

SummaryNames == {"means", "stds", "q05", "q95"}

\* np.random.choice(n, size, replace=False): every array of size distinct
\* indices below n is a possible draw
choice(n, size) ==
    {ind \in [1 .. size -> 0 .. n - 1] : \A i, j \in 1 .. size : i # j => ind[i] # ind[j]}

Min(a, b) == IF a < b THEN a ELSE b

\* the requested size without the clamp
subsample_size_unclamped(use_n_obs) == use_n_obs

\* line 329: np.min((use_n_obs, self.adata.n_obs))
subsample_size(use_n_obs) == Min(use_n_obs, self_adata.n_obs)

\* the check left out
samples_missing_unchecked == FALSE

\* line 326: getattr(self, "samples", False) is False
samples_missing == ~hasattr(samples)

\* np.random.choice raises ValueError when asked for more distinct indices
\* than there are
choice_fails(use_n_obs) ==
    ~use_n_obs.is_none /\ subsample_size(use_n_obs.v) > self_adata.n_obs

\* lines 328-331: the values ind_x can take
ind_x_choices(use_n_obs) ==
    IF ~use_n_obs.is_none
    THEN {Some(ind) : ind \in choice(self_adata.n_obs, subsample_size(use_n_obs.v))}
    ELSE {None}

\* self.module.model.compute_expected(summary, adata_manager, ind_x=ind_x):
\* the model's deterministic forward map, a function of its arguments
compute_expected(summary, ind_x) ==
    [of |-> "compute_expected", summary |-> summary, ind_x |-> ind_x]

\* X[ind_x, :] raises IndexError on a scipy sparse matrix when ind_x is None
index_fails(X, ind_x) == ind_x.is_none /\ issparse(X)

\* X[ind_x, :]: None is numpy's newaxis, an index array selects rows
rows(X, ind_x) ==
    IF ind_x.is_none THEN NewAxis(X)
    ELSE IF issparse(X) THEN SparseTakeRows(X, ind_x.v)
    ELSE TakeRows(X, ind_x.v)

\* lines 338-340 and 344-346: the observed matrix handed to the plot
observed(key, ind_x) == Dense(rows(get_from_registry(key), ind_x))

\* plot_QC(summary_name, use_n_obs) past the check of self.samples, with
\* ind_x as drawn: the new self.expected_nb_param, the matrices compared and
\* how the call ended (reading self.samples raises AttributeError when the
\* attribute was never assigned)
plot_QC_run(summary_name, ind_x) ==
    LET expected == compute_expected(samples["post_sample_" \o summary_name], ind_x)
        end(loc, how) == [expected_nb_param |-> expected, locals |-> loc, outcome |-> how]
    IN  IF ~hasattr(samples)
        THEN [expected_nb_param |-> expected_nb_param, locals |-> [ind_x |-> ind_x],
              outcome |-> "AttributeError"]
        ELSE IF index_fails(get_from_registry("unspliced"), ind_x)
        THEN end([ind_x |-> ind_x], "IndexError")
        ELSE IF index_fails(get_from_registry("spliced"), ind_x)
        THEN end([ind_x |-> ind_x, u_data |-> observed("unspliced", ind_x)], "IndexError")
        ELSE end([ind_x |-> ind_x,
                  u_data |-> observed("unspliced", ind_x),
                  s_data |-> observed("spliced", ind_x)], "returned")

----------------------------------------------------------------------------
(* The calls a user can make, with their arguments drawn from the given sets *)

SampleKwargs ==
    {NoneArg, ListArg, DictArg([num_samples |-> 2]),
     DictArg([return_samples |-> FALSE]), DictArg([return_samples |-> TRUE])}

ExportSlots == {"mod", "mod2"}

UseNObs == {None} \cup {Some(n) : n \in 0 .. MaxCells + 1}

Call(op, outcome) == <<op, outcome>>

export_posterior(limit, Kwargs, Slots, Full, Normalize) ==
    /\ Len(trace) < limit
    /\ \E draw \in sampler, sample_kwargs \in Kwargs, export_slot \in Slots,
          full_velocity_posterior \in Full, norm \in Normalize :
          \E r \in {export_posterior_run(draw, sample_kwargs, export_slot,
                                          full_velocity_posterior, norm)} :
              /\ samples' = r.samples
              /\ adata' = r.adata
              /\ last' = [op |-> "export_posterior", outcome |-> r.outcome,
                          args |-> [sample_kwargs |-> sample_kwargs,
                                    export_slot |-> export_slot,
                                    full_velocity_posterior |-> full_velocity_posterior,
                                    normalize |-> norm],
                          locals |-> <<>>]
              /\ trace' = Append(trace, Call("export_posterior", r.outcome))
    /\ UNCHANGED <<self_adata, sampler, expected_nb_param>>

plot_QC(limit, Names, NObs) ==
    /\ Len(trace) < limit
    /\ \E summary_name \in Names, use_n_obs \in NObs :
          LET args == [summary_name |-> summary_name, use_n_obs |-> use_n_obs]
              raise(how) ==
                  /\ last' = [op |-> "plot_QC", outcome |-> how, args |-> args, locals |-> <<>>]
                  /\ trace' = Append(trace, Call("plot_QC", how))
                  /\ UNCHANGED expected_nb_param
          IN  IF samples_missing THEN raise("RuntimeError")
              ELSE IF choice_fails(use_n_obs) THEN raise("ValueError")
              ELSE \E ind_x \in ind_x_choices(use_n_obs) :
                      \E r \in {plot_QC_run(summary_name, ind_x)} :
                          /\ expected_nb_param' = r.expected_nb_param
                          /\ last' = [op |-> "plot_QC", outcome |-> r.outcome,
                                      args |-> args, locals |-> r.locals]
                          /\ trace' = Append(trace, Call("plot_QC", r.outcome))
    /\ UNCHANGED <<self_adata, sampler, samples, adata>>

ReturnSamplesOff == DictArg([return_samples |-> FALSE])
ReturnSamplesOn == DictArg([return_samples |-> TRUE])

\* any calls, with every kind of sample_kwargs
Next ==
    \/ export_posterior(MaxCalls, SampleKwargs, ExportSlots, BOOLEAN, BOOLEAN)
    \/ plot_QC(MaxCalls, {"means"}, {None, Some(1)})

\* exports and diagnostics, with every use_n_obs
NextQC ==
    \/ export_posterior(MaxCalls, {NoneArg, ReturnSamplesOff}, {"mod"}, {FALSE}, {FALSE})
    \/ plot_QC(MaxCalls, {"means", "q05"}, UseNObs)

\* exports to one slot, one call more
NextExport ==
    export_posterior(MaxCalls + 1, {NoneArg, ReturnSamplesOff, ReturnSamplesOn},
                     {"mod"}, {FALSE}, {FALSE})

\* exports to either slot of a data object of any of the shapes
NextRecord ==
    export_posterior(MaxCalls, {NoneArg, ReturnSamplesOff, ReturnSamplesOn}, ExportSlots,
                     {FALSE}, {FALSE})

\* exports with return_samples given, every combination of the flags
NextOptIn ==
    export_posterior(MaxCalls, {ReturnSamplesOff, ReturnSamplesOn}, {"mod"}, BOOLEAN, BOOLEAN)

----------------------------------------------------------------------------
(* Initial states *)

\* a data object without annotations yet
EmptyData(n_obs, n_vars) ==
    [n_obs |-> n_obs, n_vars |-> n_vars, obs |-> <<>>, var |-> <<>>,
     uns |-> <<>>, layers |-> <<>>]

PosValues == <<Num(1), Num(2), Half, Num(3)>>
StdValues == <<Zero, Num(1), Half>>

Weight(t) == t[1] + 2 * t[2] + 3 * t[3]
Offset(p) == CHOOSE i \in DOMAIN ParamNames : ParamNames[i] = p
Pos(k) == PosValues[(k % Len(PosValues)) + 1]
Std(k) == StdValues[(k % Len(StdValues)) + 1]

num_samples == 2

\* a sample set for C cells, G genes and B batches with the given posterior
\* means, standard deviations and raw draws
SampleSet(C, G, B, mean(_, _), std(_, _), raw(_, _, _)) ==
    [post_sample_means |-> ParamArrays(C, G, B, mean),
     post_sample_stds |-> ParamArrays(C, G, B, std),
     post_sample_q05 |-> ParamArrays(C, G, B, LAMBDA p, t : RSub(mean(p, t), std(p, t))),
     post_sample_q95 |-> ParamArrays(C, G, B, LAMBDA p, t : RAdd(mean(p, t), std(p, t))),
     posterior_samples |->
        [p \in Params |->
            NdArray(<<num_samples>> \o ParamShape(p, C, G, B),
                    LAMBDA t : raw(p, t[1], Tail(t)))]]

\* the d-th sample set of the sampler's family
Draw(d, C, G, B) ==
    SampleSet(C, G, B,
              LAMBDA p, t : Pos(d + Offset(p) + Weight(t)),
              LAMBDA p, t : Std(d + Offset(p) + Weight(t)),
              LAMBDA p, i, t : Pos(d + i + Offset(p) + Weight(t)))

Pick(values, k) == values[(k % Len(values)) + 1]

\* sample sets whose rates and velocity means and deviations are picked by
\* seed (one pick per quantity, rotated along cells and genes)
BetaMeans == <<Num(2), Num(1)>>
GammaMeans == <<Num(1), Num(2)>>
Mu0Means == <<Num(3), Zero>>
Mu1Means == <<Num(1), Num(-1)>>
Deviations == <<Zero, Half>>

VelocitySeeds ==
    [bm : 0 .. 1, bs : 0 .. 1, gm : 0 .. 1, gs : 0 .. 1,
     m0 : 0 .. 1, s0 : 0 .. 1, m1 : 0 .. 1, s1 : 0 .. 1]

VelocityDraw(seed, C, G) ==
    LET mean(p, t) ==
            CASE p = "beta_g" -> Pick(BetaMeans, seed.bm + t[2])
              [] p = "gamma_g" -> Pick(GammaMeans, seed.gm + t[2])
              [] p = "mu_RNAvelocity" ->
                    IF t[3] = 0 THEN Pick(Mu0Means, seed.m0 + t[1] + t[2])
                    ELSE Pick(Mu1Means, seed.m1 + t[1] + t[2])
              [] OTHER -> Pos(Offset(p) + Weight(t))
        std(p, t) ==
            CASE p = "beta_g" -> Pick(Deviations, seed.bs + t[2])
              [] p = "gamma_g" -> Pick(Deviations, seed.gs + t[2])
              [] p = "mu_RNAvelocity" ->
                    IF t[3] = 0 THEN Pick(Deviations, seed.s0 + t[1] + t[2])
                    ELSE Pick(Deviations, seed.s1 + t[1] + t[2])
              [] OTHER -> Std(Offset(p) + Weight(t))
    IN  SampleSet(C, G, 1, mean, std, LAMBDA p, i, t : Pos(i + Offset(p) + Weight(t)))

\* data sets and sample sets whose counts, detection efficiencies and
\* additive backgrounds are picked by seed (per cell, per cell, per batch)
MaxBatches == 2
CountValues == <<0, 1, 2>>
DetectionValues == <<Half, Num(2)>>
BackgroundValues == <<Zero, Half>>

NormalizeSeeds(C, B) ==
    [counts : [0 .. C - 1 -> 0 .. 1], detection : [0 .. C - 1 -> 0 .. 1],
     background : [0 .. B - 1 -> 0 .. 1]]

NormalizeData(seed, C, G, B, sparse) ==
    DataSet(C, G, B, sparse,
            LAMBDA t : Num(Pick(CountValues, seed.counts[t[1]] + t[2])),
            LAMBDA t : Num(Pick(CountValues, seed.counts[t[1]] + 2 * t[2] + 1)))

NormalizeDraw(seed, C, G, B) ==
    LET mean(p, t) ==
            CASE p = "detection_y_cu" -> Pick(DetectionValues, seed.detection[t[2]])
              [] p = "detection_y_cs" -> Pick(DetectionValues, seed.detection[t[2]] + t[2] + 1)
              [] p = "s_g_gene_add" -> Pick(BackgroundValues, seed.background[t[1]] + t[2] + t[3])
              [] OTHER -> Pos(Offset(p) + Weight(t))
    IN  SampleSet(C, G, B, mean, LAMBDA p, t : Std(Offset(p) + Weight(t)),
                  LAMBDA p, i, t : Pos(i + Offset(p) + Weight(t)))

\* the data objects a caller may pass: of the registered shape, or one cell
\* or one gene larger
DataObjects(C, G) == {EmptyData(C, G), EmptyData(C + 1, G), EmptyData(C, G + 1)}

Fresh ==
    /\ samples = NoAttr
    /\ expected_nb_param = NoAttr
    /\ last = [op |-> "__init__", outcome |-> "returned", args |-> <<>>, locals |-> <<>>]
    /\ trace = <<>>

Counts1(t) == Num((t[1] + t[2]) % 3)
Counts2(t) == Num((2 * t[1] + t[2] + 1) % 3)

Init ==
    /\ \E C \in 1 .. MaxCells, G \in 1 .. MaxGenes :
          /\ self_adata = DataSet(C, G, 1, FALSE, Counts1, Counts2)
          /\ sampler = {Draw(d, C, G, 1) : d \in 1 .. NumDraws}
          /\ adata \in DataObjects(C, G)
    /\ Fresh

InitQC ==
    /\ \E C \in 1 .. MaxCells, G \in 1 .. MaxGenes, sparse \in BOOLEAN :
          /\ self_adata = DataSet(C, G, 1, sparse, Counts1, Counts2)
          /\ sampler = {Draw(d, C, G, 1) : d \in 1 .. NumDraws}
          /\ adata = EmptyData(C, G)
    /\ Fresh

InitVelocity ==
    /\ \E C \in 1 .. MaxCells, G \in 1 .. MaxGenes, seed \in VelocitySeeds :
          /\ self_adata = DataSet(C, G, 1, FALSE, Counts1, Counts2)
          /\ sampler = {VelocityDraw(seed, C, G)}
          /\ adata = EmptyData(C, G)
    /\ Fresh

InitNormalize ==
    /\ \E C \in 1 .. MaxCells, G \in 1 .. MaxGenes, sparse \in BOOLEAN :
        \E B \in 1 .. Min(C, MaxBatches) :
        \E seed \in NormalizeSeeds(C, B) :
          /\ self_adata = NormalizeData(seed, C, G, B, sparse)
          /\ sampler = {NormalizeDraw(seed, C, G, B)}
          /\ adata = EmptyData(C, G)
    /\ Fresh

InitOptIn ==
    /\ \E C \in 1 .. MaxCells, G \in 1 .. MaxGenes :
          /\ self_adata = DataSet(C, G, 1, FALSE, Counts1, Counts2)
          /\ sampler = {Draw(d, C, G, 1) : d \in 1 .. NumDraws}
          /\ adata = EmptyData(C, G)
    /\ Fresh

\* one export from a fresh model
NextOnce == export_posterior(1, {ReturnSamplesOff, ReturnSamplesOn}, {"mod"}, BOOLEAN, BOOLEAN)

\* one export from a fresh model, with and without normalize
NextNormalize == export_posterior(1, {ReturnSamplesOff}, {"mod"}, {FALSE}, BOOLEAN)

Spec == Init /\ [][Next]_vars

SpecQC == InitQC /\ [][NextQC]_vars

SpecExport == Init /\ [][NextExport]_vars

SpecVelocity == InitVelocity /\ [][NextOnce]_vars

SpecNormalize == InitNormalize /\ [][NextNormalize]_vars

SpecRecord == Init /\ [][NextRecord]_vars

SpecOptIn == InitOptIn /\ [][NextOptIn]_vars

----------------------------------------------------------------------------
(* Properties *)

Exported == last.op = "export_posterior" /\ last.outcome = "returned"

Cells == 0 .. self_adata.n_obs - 1
Genes == 0 .. self_adata.n_vars - 1

\* the posterior mean and standard deviation of one entry of a parameter
MeanOf(p, t) == samples["post_sample_means"][p].at[t]
StdOf(p, t) == samples["post_sample_stds"][p].at[t]

\* raw / detection - background of the cell's batch, for one cell and gene
\* of one modality (k = 0 unspliced, k = 1 spliced)
CorrectedEntry(key, detection, k, c, g) ==
    RSub(RDiv(Dense(self_adata.layers[key]).at[<<c, g>>], MeanOf(detection, <<0, c, 0>>)),
         MeanOf("s_g_gene_add", <<self_adata.batch.at[<<c, 0>>], g, k>>))

\* the layer is the corrected matrix minus the corrected matrix's smallest
\* entry, has nothing below zero and has a zero
ShiftedToZero(layer, key, detection, k) ==
    /\ layer.shape = <<self_adata.n_obs, self_adata.n_vars>>
    /\ \E c0 \in Cells, g0 \in Genes :
          /\ \A c \in Cells, g \in Genes :
                /\ RLe(CorrectedEntry(key, detection, k, c0, g0),
                       CorrectedEntry(key, detection, k, c, g))
                /\ layer.at[<<c, g>>] =
                       RSub(CorrectedEntry(key, detection, k, c, g),
                            CorrectedEntry(key, detection, k, c0, g0))
                /\ ~RLt(layer.at[<<c, g>>], Zero)
          /\ layer.at[<<c0, g0>>] = Zero

\* C1: after an export that ran normalize(), each of the layers
\* unspliced_norm and spliced_norm is raw / detection - background of the
\* cell's batch, shifted by the global minimum of that matrix: no entry is
\* below zero and the smallest entry is exactly zero.
C1_NormalizedLayers ==
    (Exported /\ last.args.normalize) =>
        /\ ShiftedToZero(adata.layers["unspliced_norm"], "unspliced", "detection_y_cu", 0)
        /\ ShiftedToZero(adata.layers["spliced_norm"], "spliced", "detection_y_cs", 1)

\* normalize() ran on two cells in two batches and two genes, the corrected
\* unspliced matrix has an entry below zero and rows with different minima
C1_Witness ==
    /\ Exported /\ last.args.normalize
    /\ self_adata.n_obs = 2 /\ self_adata.n_vars = 2
    /\ self_adata.batch.at[<<1, 0>>] = 1
    /\ \E c \in Cells, g \in Genes :
          RLt(CorrectedEntry("unspliced", "detection_y_cu", 0, c, g), Zero)
    /\ \A g \in Genes : adata.layers["unspliced_norm"].at[<<1, g>>] # Zero

\* C2: after export_posterior, velocity[c, g] is
\* beta_g[g] * mu_RNAvelocity[c, g, 0] - gamma_g[g] * mu_RNAvelocity[c, g, 1]
\* of the posterior means (2, 1, 3, 1 give 5), for every cell and gene.
C2_Velocity ==
    Exported =>
        /\ adata.layers["velocity"].shape = <<self_adata.n_obs, self_adata.n_vars>>
        /\ \A c \in Cells, g \in Genes :
              /\ adata.layers["velocity"].at[<<c, g>>] =
                     RSub(RMul(MeanOf("beta_g", <<0, g, 0>>), MeanOf("mu_RNAvelocity", <<c, g, 0>>)),
                          RMul(MeanOf("gamma_g", <<0, g, 0>>), MeanOf("mu_RNAvelocity", <<c, g, 1>>)))
              /\ (/\ MeanOf("beta_g", <<0, g, 0>>) = Num(2)
                  /\ MeanOf("gamma_g", <<0, g, 0>>) = Num(1)
                  /\ MeanOf("mu_RNAvelocity", <<c, g, 0>>) = Num(3)
                  /\ MeanOf("mu_RNAvelocity", <<c, g, 1>>) = Num(1))
                 => adata.layers["velocity"].at[<<c, g>>] = Num(5)

\* an export over two cells and two genes in which one entry has the means
\* 2, 1, 3, 1 and velocity 5, and another gene has other rates
C2_Witness ==
    /\ Exported
    /\ self_adata.n_obs = 2 /\ self_adata.n_vars = 2
    /\ MeanOf("beta_g", <<0, 0, 0>>) = Num(2)
    /\ MeanOf("gamma_g", <<0, 0, 0>>) = Num(1)
    /\ MeanOf("mu_RNAvelocity", <<1, 0, 0>>) = Num(3)
    /\ MeanOf("mu_RNAvelocity", <<1, 0, 1>>) = Num(1)
    /\ adata.layers["velocity"].at[<<1, 0>>] = Num(5)
    /\ MeanOf("beta_g", <<0, 1, 0>>) # MeanOf("beta_g", <<0, 0, 0>>)

\* V(X, Y) = (mX^2 + sX^2) * (mY^2 + sY^2) - mX^2 * mY^2
ProductVariance(mX, sX, mY, sY) ==
    RSub(RMul(RAdd(RSq(mX), RSq(sX)), RAdd(RSq(mY), RSq(sY))), RMul(RSq(mX), RSq(mY)))

\* V(beta_g, mu0) + V(gamma_g, mu1) for one cell and gene
SumOfVariances(c, g) ==
    RAdd(ProductVariance(MeanOf("beta_g", <<0, g, 0>>), StdOf("beta_g", <<0, g, 0>>),
                         MeanOf("mu_RNAvelocity", <<c, g, 0>>), StdOf("mu_RNAvelocity", <<c, g, 0>>)),
         ProductVariance(MeanOf("gamma_g", <<0, g, 0>>), StdOf("gamma_g", <<0, g, 0>>),
                         MeanOf("mu_RNAvelocity", <<c, g, 1>>), StdOf("mu_RNAvelocity", <<c, g, 1>>)))

\* C10: for every cell and gene the quantity under the square root of
\* velocity_sd is V(beta_g, mu0) + V(gamma_g, mu1), the sum of the two
\* product variances; it is never negative, so velocity_sd is never NaN.
C10_VelocitySd ==
    Exported =>
        /\ adata.layers["velocity_sd"].shape = <<self_adata.n_obs, self_adata.n_vars>>
        /\ \A c \in Cells, g \in Genes :
              /\ ~RLt(SumOfVariances(c, g), Zero)
              /\ adata.layers["velocity_sd"].at[<<c, g>>] # NaN
              /\ adata.layers["velocity_sd"].at[<<c, g>>] = Sqrt(SumOfVariances(c, g))

\* an export where both product variances of an entry are positive, the
\* second the larger, with a negative mean among the factors
C10_Witness ==
    /\ Exported
    /\ \E c \in Cells, g \in Genes :
          LET v0 == ProductVariance(MeanOf("beta_g", <<0, g, 0>>), StdOf("beta_g", <<0, g, 0>>),
                                    MeanOf("mu_RNAvelocity", <<c, g, 0>>),
                                    StdOf("mu_RNAvelocity", <<c, g, 0>>))
              v1 == ProductVariance(MeanOf("gamma_g", <<0, g, 0>>), StdOf("gamma_g", <<0, g, 0>>),
                                    MeanOf("mu_RNAvelocity", <<c, g, 1>>),
                                    StdOf("mu_RNAvelocity", <<c, g, 1>>))
          IN  /\ RLt(Zero, v0) /\ RLt(v0, v1)
              /\ RLt(MeanOf("mu_RNAvelocity", <<c, g, 1>>), Zero)
              /\ adata.layers["velocity_sd"].at[<<c, g>>] = [sqrt_of |-> RAdd(v0, v1)]

\* the step is one call of the named operation
Called(op) == last'.op = op /\ Len(trace') = Len(trace) + 1

\* an earlier export_posterior call is on record
ExportedBefore == \E i \in DOMAIN trace : trace[i][1] = "export_posterior"

\* C4: plot_QC called while self.samples was never assigned raises
\* RuntimeError before a subsample is drawn or compute_expected is called
\* and leaves the model and the data unchanged; a plot_QC call gets to
\* compute_expected only where an earlier export_posterior assigned
\* self.samples.
C4_SamplesRequired ==
    [][Called("plot_QC") =>
        /\ ~hasattr(samples) =>
              /\ last'.outcome = "RuntimeError"
              /\ DOMAIN last'.locals = {}
              /\ UNCHANGED <<self_adata, sampler, samples, expected_nb_param, adata>>
        /\ last'.outcome \in {"returned", "IndexError"} =>
              /\ hasattr(samples)
              /\ ExportedBefore
              /\ expected_nb_param'.of = "compute_expected"
        /\ last'.outcome \notin {"returned", "IndexError"} =>
              UNCHANGED expected_nb_param]_vars

\* plot_QC was the first call made on the model and raised RuntimeError
C4_Witness ==
    /\ last.op = "plot_QC" /\ last.outcome = "RuntimeError"
    /\ trace = <<Call("plot_QC", "RuntimeError")>>
    /\ ~hasattr(samples) /\ ~hasattr(expected_nb_param)

\* a plot_QC call that got past the check of self.samples, with a number
\* for use_n_obs
Subsampled ==
    /\ last.op = "plot_QC" /\ last.outcome # "RuntimeError"
    /\ ~last.args.use_n_obs.is_none

\* data is the dense rows of the registered layer at the indices ind, in
\* the order drawn
RowsAt(data, key, ind) ==
    /\ data.shape = <<Len(ind), self_adata.n_vars>>
    /\ \A i \in 1 .. Len(ind), g \in Genes :
          data.at[<<i - 1, g>>] = Dense(self_adata.layers[key]).at[<<ind[i], g>>]

\* C5: for a requested use_n_obs >= 0 and C cells, plot_QC draws exactly
\* min(use_n_obs, C) cell indices, distinct and in 0..C-1, does not raise
\* when the request exceeds C, and uses that one index set for the expected
\* counts and for the unspliced and the spliced observed matrices.
C5_Subsample ==
    Subsampled =>
        /\ last.outcome = "returned"
        /\ ~last.locals.ind_x.is_none
        /\ LET ind == last.locals.ind_x.v
               n == last.args.use_n_obs.v
           IN  /\ Len(ind) = (IF n < self_adata.n_obs THEN n ELSE self_adata.n_obs)
               /\ \A i \in 1 .. Len(ind) : ind[i] \in Cells
               /\ \A i, j \in 1 .. Len(ind) : i # j => ind[i] # ind[j]
               /\ expected_nb_param.ind_x = last.locals.ind_x
               /\ expected_nb_param.summary = samples["post_sample_" \o last.args.summary_name]
               /\ RowsAt(last.locals.u_data, "unspliced", ind)
               /\ RowsAt(last.locals.s_data, "spliced", ind)

\* more cells requested than the two there are, both drawn, in the order
\* second, first, from sparse layers
C5_Witness ==
    /\ Subsampled
    /\ last.outcome = "returned"
    /\ self_adata.n_obs = 2
    /\ last.args.use_n_obs.v = 3
    /\ last.locals.ind_x = Some(<<1, 0>>)
    /\ issparse(self_adata.layers["unspliced"])
    /\ last.locals.u_data.at[<<0, 0>>] = Dense(self_adata.layers["unspliced"]).at[<<1, 0>>]

\* C6: plot_QC with use_n_obs=None uses every cell without subsampling: the
\* call returns, and the expected counts and the observed unspliced and
\* spliced matrices have one row per cell in the original order, of shape
\* cells x genes.
C6_FullPopulation ==
    (/\ last.op = "plot_QC" /\ last.outcome # "RuntimeError"
     /\ last.args.use_n_obs.is_none) =>
        /\ last.outcome = "returned"
        /\ last.locals.u_data.shape = <<self_adata.n_obs, self_adata.n_vars>>
        /\ last.locals.s_data.shape = <<self_adata.n_obs, self_adata.n_vars>>
        /\ last.locals.u_data = Dense(self_adata.layers["unspliced"])
        /\ last.locals.s_data = Dense(self_adata.layers["spliced"])

\* the sample_kwargs of the last call hold return_samples, and its value
HasKey(args) ==
    args.sample_kwargs.type = "dict" /\ "return_samples" \in DOMAIN args.sample_kwargs.items
ReturnSamples(args) == HasKey(args) /\ args.sample_kwargs.items["return_samples"]

\* the record the last export_posterior call attached to the data object
Record == adata.uns[last.args.export_slot]

\* C7 as stated: the record export_posterior attaches at
\* adata.uns[export_slot] has var_names of length G and obs_names of length
\* C, the gene and cell counts of the data object it is attached to, and
\* carries post_sample_means, post_sample_stds, post_sample_q05 and
\* post_sample_q95 as they are in the sample set.
C7_ExportRecord ==
    last.op = "export_posterior" =>
        /\ Len(Record.var_names) = adata.n_vars
        /\ Len(Record.obs_names) = adata.n_obs
        /\ \A k \in SummaryKeys : Record[k] = samples[k]

\* C7 amended: the record export_posterior attaches at
\* adata.uns[export_slot] has the var_names and obs_names of the data the
\* model was set up with, of that data's gene and cell counts; these are the
\* counts of the data object attached to whenever the call returns, while a
\* call on an object of other counts raises with the record attached. The
\* record carries post_sample_means, post_sample_stds, post_sample_q05 and
\* post_sample_q95 as they are in the sample set.
C7_RecordOfRegisteredData ==
    last.op = "export_posterior" =>
        /\ Record.var_names = self_adata.var_names
        /\ Record.obs_names = self_adata.obs_names
        /\ Len(Record.var_names) = self_adata.n_vars
        /\ Len(Record.obs_names) = self_adata.n_obs
        /\ \A k \in SummaryKeys : Record[k] = samples[k]
        /\ {"model_name", "date"} \subseteq DOMAIN Record
        /\ last.outcome = "returned" =>
              /\ Len(Record.var_names) = adata.n_vars
              /\ Len(Record.obs_names) = adata.n_obs
        /\ (adata.n_obs # self_adata.n_obs \/ adata.n_vars # self_adata.n_vars) =>
              last.outcome \in {"KeyError", "ValueError"}

\* an export on the registered data with two cells and one gene returned,
\* with return_samples given
C7_Witness ==
    /\ Exported
    /\ HasKey(last.args)
    /\ adata.n_obs = 2 /\ adata.n_vars = 1
    /\ Len(Record.obs_names) = 2
    /\ Len(Record.var_names) = 1

\* beta_g[..., 0] * mu_RNAvelocity[..., 0] - gamma_g[..., 0] * mu_RNAvelocity[..., 1]
\* of the raw draws, for draw i, cell c and gene g
DrawVelocity(ps, i, c, g) ==
    RSub(RMul(ps["beta_g"].at[<<i, 0, g, 0>>], ps["mu_RNAvelocity"].at[<<i, c, g, 0>>]),
         RMul(ps["gamma_g"].at[<<i, 0, g, 0>>], ps["mu_RNAvelocity"].at[<<i, c, g, 1>>]))

\* C8: after export_posterior, adata.uns[export_slot] holds 'post_samples'
\* if and only if return_samples is true; adata.uns['velocity_posterior'] is
\* written (with the velocity of every draw) if and only if return_samples
\* and full_velocity_posterior are both true, and with either flag off what
\* was stored there before stays as it was.
C8_OptIn ==
    [][Called("export_posterior") =>
        /\ "post_samples" \in DOMAIN adata'.uns[last'.args.export_slot]
              <=> ReturnSamples(last'.args)
        /\ ReturnSamples(last'.args) =>
              adata'.uns[last'.args.export_slot]["post_samples"] = samples'["posterior_samples"]
        /\ last'.outcome = "returned" =>
              IF ReturnSamples(last'.args) /\ last'.args.full_velocity_posterior
              THEN /\ "velocity_posterior" \in DOMAIN adata'.uns
                   /\ adata'.uns["velocity_posterior"].shape
                          = <<num_samples, self_adata.n_obs, self_adata.n_vars>>
                   /\ \A i \in 0 .. num_samples - 1, c \in Cells, g \in Genes :
                         adata'.uns["velocity_posterior"].at[<<i, c, g>>]
                             = DrawVelocity(samples'["posterior_samples"], i, c, g)
              ELSE /\ "velocity_posterior" \in DOMAIN adata'.uns
                         <=> "velocity_posterior" \in DOMAIN adata.uns
                   /\ "velocity_posterior" \in DOMAIN adata.uns =>
                         adata'.uns["velocity_posterior"] = adata.uns["velocity_posterior"]]_vars

\* an export with return_samples off, after one that stored the velocity of
\* every draw: that value is still there and the record has no post_samples
C8_Witness ==
    /\ Exported
    /\ trace = <<Call("export_posterior", "returned"), Call("export_posterior", "returned")>>
    /\ ~ReturnSamples(last.args)
    /\ "velocity_posterior" \in DOMAIN adata.uns
    /\ "post_samples" \notin DOMAIN adata.uns[last.args.export_slot]
    /\ "posterior_samples" \notin DOMAIN samples

\* the annotations export_posterior documents
ObsKeys ==
    {"latent_time_mean", "latent_time_sd",
     "normalization_factor_unspliced_mean", "normalization_factor_unspliced_sd",
     "normalization_factor_spliced_mean", "normalization_factor_spliced_sd"}
VarKeys ==
    {"transcription_rate_mean", "transcription_rate_sd", "splicing_rate_mean", "splicing_rate_sd",
     "degredation_rate_mean", "degredation_rate_sd", "switchON_time_mean", "switchON_time_sd",
     "switchOFF_time_mean", "switchOFF_time_sd"}

\* C9: an export_posterior call whose sample_kwargs is None, not a dict, or
\* a dict without 'return_samples', on a data object of the registered
\* shape, completes without error, exports no 'post_samples' and no
\* 'velocity_posterior', and writes the obs, var and layer annotations.
C9_OptionalKwargs ==
    (/\ last.op = "export_posterior" /\ ~HasKey(last.args)
     /\ adata.n_obs = self_adata.n_obs /\ adata.n_vars = self_adata.n_vars) =>
        /\ last.outcome = "returned"
        /\ "post_samples" \notin DOMAIN adata.uns[last.args.export_slot]
        /\ ObsKeys \subseteq DOMAIN adata.obs
        /\ VarKeys \subseteq DOMAIN adata.var
        /\ {"velocity", "velocity_sd"} \subseteq DOMAIN adata.layers

\* the annotation values an export leaves on the data object
Annotations(a, slot) ==
    [obs |-> a.obs, var |-> a.var,
     velocity |-> a.layers["velocity"], velocity_sd |-> a.layers["velocity_sd"],
     summaries |-> [k \in SummaryKeys |-> a.uns[slot][k]]]

\* where each obs and var column comes from: summary and parameter
ObsSource ==
    [latent_time_mean |-> <<"post_sample_means", "T_c">>,
     latent_time_sd |-> <<"post_sample_stds", "T_c">>,
     normalization_factor_unspliced_mean |-> <<"post_sample_means", "detection_y_cu">>,
     normalization_factor_unspliced_sd |-> <<"post_sample_stds", "detection_y_cu">>,
     normalization_factor_spliced_mean |-> <<"post_sample_means", "detection_y_cs">>,
     normalization_factor_spliced_sd |-> <<"post_sample_stds", "detection_y_cs">>]
VarSource ==
    [transcription_rate_mean |-> <<"post_sample_means", "alpha_g">>,
     transcription_rate_sd |-> <<"post_sample_stds", "alpha_g">>,
     splicing_rate_mean |-> <<"post_sample_means", "beta_g">>,
     splicing_rate_sd |-> <<"post_sample_stds", "beta_g">>,
     degredation_rate_mean |-> <<"post_sample_means", "gamma_g">>,
     degredation_rate_sd |-> <<"post_sample_stds", "gamma_g">>,
     switchON_time_mean |-> <<"post_sample_means", "T_gON">>,
     switchON_time_sd |-> <<"post_sample_stds", "T_gON">>,
     switchOFF_time_mean |-> <<"post_sample_means", "T_gOFF">>,
     switchOFF_time_sd |-> <<"post_sample_stds", "T_gOFF">>]

\* the column of n entries holding the parameter's summary per cell or gene
Column(A, n) ==
    [shape |-> <<n>>, at |-> [t \in {<<i>> : i \in 0 .. n - 1} |-> A.at[<<0, t[1], 0>>]]]

\* the annotation values that the sample set smp determines
AnnotationsOf(smp) ==
    [obs |-> [k \in DOMAIN ObsSource |->
                 Column(smp[ObsSource[k][1]][ObsSource[k][2]], self_adata.n_obs)],
     var |-> [k \in DOMAIN VarSource |->
                 Column(smp[VarSource[k][1]][VarSource[k][2]], self_adata.n_vars)],
     velocity |-> velocity(smp["post_sample_means"]),
     velocity_sd |-> velocity_sd(smp["post_sample_means"], smp["post_sample_stds"]),
     summaries |-> [k \in SummaryKeys |-> smp[k]]]

\* the step is the second of two export_posterior(data, normalize=False)
\* calls in a row that returned, self.samples being cached before the first
SecondExportInARow ==
    /\ Called("export_posterior")
    /\ last.op = "export_posterior"
    /\ Len(trace) >= 2
    /\ last.outcome = "returned" /\ last'.outcome = "returned"
    /\ ~last.args.normalize /\ ~last'.args.normalize
    /\ last.args.export_slot = last'.args.export_slot

\* C3 as stated: two export_posterior(data, normalize=False) calls in a row,
\* made with self.samples cached, leave identical annotation values.
C3_Idempotent ==
    [][SecondExportInARow =>
          Annotations(adata', last'.args.export_slot)
              = Annotations(adata, last.args.export_slot)]_vars

\* C3 amended: every export_posterior(data, normalize=False) call that
\* returns assigns self.samples one of the sampler's sample sets and leaves
\* the annotation values which that sample set determines, whatever was
\* cached in self.samples before the call.
C3_FunctionOfNewSamples ==
    [][(Called("export_posterior") /\ last'.outcome = "returned") =>
          /\ \E draw \in sampler : \A k \in SummaryKeys : samples'[k] = draw[k]
          /\ Annotations(adata', last'.args.export_slot) = AnnotationsOf(samples')]_vars

\* three exports in a row returned, the last two with different sample sets
C3_Witness ==
    /\ Exported
    /\ trace = <<Call("export_posterior", "returned"), Call("export_posterior", "returned"),
                 Call("export_posterior", "returned")>>
    /\ Annotations(adata, "mod") = AnnotationsOf(samples)
    /\ \E draw \in sampler : AnnotationsOf(draw) # AnnotationsOf(samples)

====
